---- MODULE Spec2Model ----
(***************************************************************************)
(* Announcements module of Course Builder:                                 *)
(* coursebuilder/modules/announcements/announcements.py                    *)
(*                                                                         *)
(* The state is the datastore of AnnouncementEntity records, the last      *)
(* response written by a handler, and the REST PUT requests that have read *)
(* their entity and not yet written it back.                               *)
(***************************************************************************)
EXTENDS Integers, Sequences, FiniteSets, TLC

\* ------------------------------------------------------------------ bounds
MaxKey == 4          \* how many keys the datastore hands out in a run
MaxAdds == 1         \* how many announcements the add action creates in a run
MaxPuts == 2         \* REST PUT requests that may be in flight together

\* --------------------------------------------------------------- constants
FetchLimit == 1000   \* fetch(1000) in get_list

VARIABLES
    store,      \* datastore: key -> entity properties
    nextKey,    \* next key the datastore assigns (a key is assigned once)
    resp,       \* the response of the last request that finished
    puts,       \* the REST PUTs that have read their entity and not written it
    added,      \* how many announcements the add action has created
    seeded,     \* history: how many times the sample set was written
    lastPut     \* history: key -> <<>> or <<JSON fields of the last PUT written>>

vars == <<store, nextKey, resp, puts, added, seeded, lastPut>>

\* -------------------------------------------------------------------- keys
\* A key travels as a string.  1..MaxKey are the well-formed keys (whether or
\* not a record has them); BadKey is a string that does not decode to a
\* datastore key, the empty string of a missing parameter included.
BadKey == 0
Keys == 1..MaxKey
RequestKeys == Keys \cup {BadKey}

\* ----------------------------------------------------------------- viewers
\* Nobody signed in, a user who is not enrolled, a student, and a student
\* who administers the application.
Viewers ==
    {[user |-> FALSE, student |-> FALSE, admin |-> FALSE],
     [user |-> TRUE, student |-> FALSE, admin |-> FALSE],
     [user |-> TRUE, student |-> TRUE, admin |-> FALSE],
     [user |-> TRUE, student |-> TRUE, admin |-> TRUE]}

\* The handlers other than get_list read nothing of the viewer but whether
\* they administer the application: one viewer of each kind stands for all.
Clients == {v \in Viewers : v.student}

can_view(v) == TRUE

can_edit(v) == v.admin

can_delete(v) == can_edit(v)

can_add(v) == can_edit(v)

\* ------------------------------------------------------------------- dates
Digits == <<"0", "1", "2", "3", "4", "5", "6", "7", "8", "9">>

IsDigit(c) == \E i \in 1..10 : Digits[i] = c

DigitVal(c) == (CHOOSE i \in 1..10 : Digits[i] = c) - 1

RECURSIVE NumVal(_)
NumVal(s) ==
    IF s = <<>> THEN 0
    ELSE 10 * NumVal(SubSeq(s, 1, Len(s) - 1)) + DigitVal(s[Len(s)])

AllDigits(s) == \A i \in 1..Len(s) : IsDigit(s[i])

IsLeap(y) == (y % 4 = 0 /\ y % 100 # 0) \/ y % 400 = 0

DaysIn(y, m) ==
    IF m = 2 THEN (IF IsLeap(y) THEN 29 ELSE 28)
    ELSE IF m \in {4, 6, 9, 11} THEN 30 ELSE 31

\* The three fields of a '%Y-%m-%d' string, or <<>> when it has another shape.
DateParts(s) ==
    LET dashes == {i \in 1..Len(s) : s[i] = "-"} IN
    IF Cardinality(dashes) # 2 THEN <<>>
    ELSE LET p1 == CHOOSE i \in dashes : \A j \in dashes : i <= j
             p2 == CHOOSE i \in dashes : \A j \in dashes : i >= j
         IN <<SubSeq(s, 1, p1 - 1), SubSeq(s, p1 + 1, p2 - 1),
              SubSeq(s, p2 + 1, Len(s))>>

\* strptime(s, '%Y-%m-%d').date(): <<date>>, or <<>> for ValueError.
ParseDate(s) ==
    LET p == DateParts(s) IN
    IF p = <<>> THEN <<>>
    ELSE IF ~(AllDigits(p[1]) /\ AllDigits(p[2]) /\ AllDigits(p[3])) THEN <<>>
    ELSE IF Len(p[1]) # 4 \/ Len(p[2]) \notin 1..2 \/ Len(p[3]) \notin 1..2
         THEN <<>>
    ELSE LET y == NumVal(p[1])
             m == NumVal(p[2])
             d == NumVal(p[3])
         IN IF y >= 1 /\ m \in 1..12 /\ d >= 1 /\ d <= DaysIn(y, m)
            THEN <<[y |-> y, m |-> m, d |-> d]>>
            ELSE <<>>

\* n written with w digits, zero padded.
RECURSIVE Pad(_, _)
Pad(n, w) ==
    IF w = 0 THEN <<>> ELSE Pad(n \div 10, w - 1) \o <<Digits[(n % 10) + 1]>>

\* date.strftime('%Y-%m-%d')
FormatDate(dt) == Pad(dt.y, 4) \o <<"-">> \o Pad(dt.m, 2) \o <<"-">> \o Pad(dt.d, 2)

DateOrd(dt) == dt.y * 10000 + dt.m * 100 + dt.d

\* --------------------------------------------------------------- datastore
\* An entity read from the datastore: its key and its four properties.
Entity(k, p) ==
    [key |-> k, title |-> p.title, date |-> p.date, html |-> p.html,
     is_draft |-> p.is_draft]

Props(e) ==
    [title |-> e.title, date |-> e.date, html |-> e.html, is_draft |-> e.is_draft]

\* AnnouncementEntity.get(key): BadKeyError for a string that is no key,
\* None for a key without a record, else the entity.
AnnouncementEntity_get(st, k) ==
    IF k \notin Keys THEN [bad |-> TRUE, entity |-> <<>>]
    ELSE [bad |-> FALSE,
          entity |-> IF k \in DOMAIN st THEN <<Entity(k, st[k])>> ELSE <<>>]

\* entity.put(): writes every property of the entity under its key.
entity_put(st, e) ==
    [k \in DOMAIN st \cup {e.key} |-> IF k = e.key THEN Props(e) ELSE st[k]]

\* entity.delete()
entity_delete(st, e) == [k \in DOMAIN st \ {e.key} |-> st[k]]

Before(st, a, b) ==
    \/ DateOrd(st[a].date) > DateOrd(st[b].date)
    \/ DateOrd(st[a].date) = DateOrd(st[b].date) /\ a <= b

RECURSIVE order_by_date_desc(_, _)
order_by_date_desc(st, ks) ==
    IF ks = {} THEN <<>>
    ELSE LET k == CHOOSE a \in ks : \A b \in ks : Before(st, a, b)
         IN <<Entity(k, st[k])>> \o order_by_date_desc(st, ks \ {k})

\* AnnouncementEntity.all().order('-date').fetch(limit)
fetch(st, limit) ==
    LET all == order_by_date_desc(st, DOMAIN st)
    IN SubSeq(all, 1, IF Len(all) < limit THEN Len(all) ELSE limit)

\* -------------------------------------------------------------- transforms
entity_to_dict(e) ==
    [key |-> e.key, title |-> e.title, date |-> e.date, html |-> e.html,
     is_draft |-> e.is_draft]

\* Python dictionary to JSON dictionary: a date becomes its ISO string.
dict_to_json(d) ==
    [key |-> d.key, title |-> d.title, date |-> FormatDate(d.date),
     html |-> d.html, is_draft |-> d.is_draft]

\* JSON dictionary to Python dictionary over the schema's fields: <<dict>>,
\* or <<>> when the date does not parse (ValueError).
json_to_dict(j) ==
    LET dt == ParseDate(j.date) IN
    IF dt = <<>> THEN <<>>
    ELSE <<[title |-> j.title, date |-> dt[1], html |-> j.html,
            is_draft |-> j.is_draft]>>

dict_to_entity(e, d) ==
    [e EXCEPT !.title = d.title, !.date = d.date, !.html = d.html,
              !.is_draft = d.is_draft]

\* json.dumps / json.loads: the encoded text is kept apart from the value.
json_dumps(v) == [json |-> v]

json_loads(t) == t.json

\* ----------------------------------------------------------------- samples
SAMPLE_ANNOUNCEMENTS ==
    <<[title |-> "Example Announcement", date |-> [y |-> 2012, m |-> 10, d |-> 6],
       html |-> "sample 1", is_draft |-> FALSE],
      [title |-> "Welcome to Class 6", date |-> [y |-> 2012, m |-> 10, d |-> 5],
       html |-> "sample 2", is_draft |-> TRUE]>>

\* ------------------------------------------------------------------ inputs
Actions == {"", "list", "edit", "add", "delete", "frobnicate"}

\* datetime.datetime.now().date()
Todays == {[y |-> 2020, m |-> 1, d |-> 2]}

\* The JSON payloads of REST PUT: the fields of a published announcement, of
\* a draft whose date is written without padding, and of one whose date is
\* no calendar date.
Payloads ==
    {[title |-> "X", html |-> "Y", is_draft |-> FALSE,
      date |-> <<"2", "0", "2", "0", "-", "0", "1", "-", "0", "1">>],
     [title |-> "Z", html |-> "W", is_draft |-> TRUE,
      date |-> <<"2", "0", "1", "2", "-", "1", "0", "-", "6">>],
     [title |-> "X", html |-> "Y", is_draft |-> FALSE,
      date |-> <<"2", "0", "2", "0", "-", "0", "2", "-", "3", "0">>]}

\* --------------------------------------------------------------- responses
\* A response, with what the request was: its verb, its action parameter,
\* whether the viewer is an administrator, and the key parameter once the
\* handler has read it.
NoResponse ==
    [method |-> "", action |-> "", admin |-> FALSE, key |-> <<>>,
     handler |-> "", status |-> 0, redirect |-> <<>>, envelope |-> <<>>,
     template |-> <<>>]

Request(method, action, v) ==
    [NoResponse EXCEPT !.method = method, !.action = action, !.admin = v.admin]

\* self.request.get('key')
with_key(req, key) == [req EXCEPT !.key = <<key>>]

\* self.error(code), in the dispatch: no handler has run.
error(req, code) == [req EXCEPT !.status = code]

\* self.error(401), in a handler that finds the right missing.
denied(req, handler) == [error(req, 401) EXCEPT !.handler = handler]

\* self.redirect(url)
redirect(req, handler, url) ==
    [req EXCEPT !.handler = handler, !.status = 302, !.redirect = <<url>>]

\* self.render(template)
render(req, handler, values) ==
    [req EXCEPT !.handler = handler, !.status = 200, !.template = <<values>>]

\* An exception nobody catches: the framework answers 500.
uncaught(req, handler) == [req EXCEPT !.handler = handler, !.status = 500]

Url(path, action, key) == [path |-> path, action |-> action, key |-> key]

default_action_edit == "edit"

default_action == "list"

get_actions == {default_action, "edit"}

post_actions == {"add", "delete"}

\* get_action_url(action, key): the key parameter is added when it is given.
get_action_url(action, key) == Url("/announcements", action, key)

apply_rights_unfiltered(v, items) == items

\* Filter out items that current user can't see.
apply_rights(v, items) ==
    IF can_edit(v) THEN items
    ELSE SelectSeq(items, LAMBDA item : ~item.is_draft)

format_item_no_delete(v, e) ==
    LET item == entity_to_dict(e) IN
    [key |-> item.key, title |-> item.title, date |-> item.date,
     html |-> item.html, is_draft |-> item.is_draft,
     edit_action |->
        IF can_edit(v) THEN <<get_action_url("edit", <<item.key>>)>> ELSE <<>>,
     delete_action |-> <<>>]

\* One entity as the template shows it, with its actions for an editor.
format_item(v, e) ==
    LET item == entity_to_dict(e) IN
    [key |-> item.key, title |-> item.title, date |-> item.date,
     html |-> item.html, is_draft |-> item.is_draft,
     edit_action |->
        IF can_edit(v) THEN <<get_action_url("edit", <<item.key>>)>> ELSE <<>>,
     delete_action |->
        IF can_edit(v) THEN <<get_action_url("delete", <<item.key>>)>> ELSE <<>>]

format_items_for_template(v, items) ==
    [children |-> [i \in 1..Len(items) |-> format_item(v, items[i])],
     add_action |-> IF can_edit(v) THEN <<get_action_url("add", <<>>)>> ELSE <<>>]

\* put_sample_announcements: one entity per sample, each put under a new key.
sample_entities(nk) ==
    [i \in 1..Len(SAMPLE_ANNOUNCEMENTS) |->
        dict_to_entity(Entity(nk + i - 1, SAMPLE_ANNOUNCEMENTS[i]),
                       SAMPLE_ANNOUNCEMENTS[i])]

RECURSIVE put_all(_, _)
put_all(st, es) ==
    IF es = <<>> THEN st ELSE put_all(entity_put(st, Head(es)), Tail(es))

send_json_response_http(req, handler, status_code, message, payload_dict) ==
    [req EXCEPT !.handler = handler, !.status = status_code,
        !.envelope = <<[status |-> 200, message |-> message,
                        payload |-> IF payload_dict # <<>>
                                    THEN <<json_dumps(payload_dict[1])>>
                                    ELSE <<>>]>>]

\* send_json_response(handler, status_code, message, payload_dict)
send_json_response(req, handler, status_code, message, payload_dict) ==
    [req EXCEPT !.handler = handler, !.status = 200,
        !.envelope = <<[status |-> status_code, message |-> message,
                        payload |-> IF payload_dict # <<>>
                                    THEN <<json_dumps(payload_dict[1])>>
                                    ELSE <<>>]>>]

\* ------------------------------------------------------------------- state
Init ==
    /\ store = <<>>
    /\ nextKey = 1
    /\ resp = NoResponse
    /\ puts = {}
    /\ added = 0
    /\ seeded = 0
    /\ lastPut = [k \in Keys |-> <<>>]

\* ------------------------------------------------- AnnouncementsHandler
\* Shows a list of announcements.
get_list(req, v) ==
    IF ~v.user
    THEN /\ resp' = redirect(req, "get_list", Url("login", "", <<>>))
         /\ UNCHANGED <<store, nextKey, seeded>>
    ELSE IF ~v.student
    THEN /\ resp' = redirect(req, "get_list", Url("/preview", "", <<>>))
         /\ UNCHANGED <<store, nextKey, seeded>>
    ELSE LET fetched == fetch(store, FetchLimit) IN
         IF fetched = <<>>
         THEN LET items == sample_entities(nextKey) IN
              /\ nextKey + Len(items) - 1 <= MaxKey
              /\ store' = put_all(store, items)
              /\ nextKey' = nextKey + Len(items)
              /\ seeded' = seeded + 1
              /\ resp' = render(req, "get_list",
                     format_items_for_template(v, apply_rights(v, items)))
         ELSE /\ resp' = render(req, "get_list",
                     format_items_for_template(v, apply_rights(v, fetched)))
              /\ UNCHANGED <<store, nextKey, seeded>>

\* Shows an editor for an announcement.
get_edit(req, v) ==
    /\ IF ~can_edit(v) THEN resp' = denied(req, "get_edit")
       ELSE \E key \in RequestKeys :
              resp' = render(with_key(req, key), "get_edit",
                        [key |-> key,
                         rest_url |-> Url("/rest/announcements/item", "", <<>>),
                         exit_url |-> Url("/announcements#", "", <<key>>)])
    /\ UNCHANGED <<store, nextKey, seeded>>

\* Handles GET.
AnnouncementsHandler_get(v, a) ==
    LET req == Request("GET", a, v)
        action == IF a = "" THEN default_action ELSE a
    IN /\ IF action \notin get_actions
          THEN /\ resp' = error(req, 404)
               /\ UNCHANGED <<store, nextKey, seeded>>
          ELSE IF action = "list" THEN get_list(req, v)
          ELSE get_edit(req, v)
       /\ UNCHANGED <<puts, added, lastPut>>

\* Deletes an announcement.
post_delete(req, v) ==
    IF ~can_delete(v)
    THEN /\ resp' = denied(req, "post_delete")
         /\ UNCHANGED <<store, nextKey, added, lastPut>>
    ELSE \E key \in RequestKeys :
         LET got == AnnouncementEntity_get(store, key) IN
         IF got.bad
         THEN /\ resp' = uncaught(with_key(req, key), "post_delete")
              /\ UNCHANGED <<store, nextKey, added, lastPut>>
         ELSE /\ store' = IF got.entity # <<>>
                          THEN entity_delete(store, got.entity[1]) ELSE store
              /\ lastPut' = IF got.entity # <<>>
                            THEN [lastPut EXCEPT ![key] = <<>>] ELSE lastPut
              /\ resp' = redirect(with_key(req, key), "post_delete",
                                  Url("/announcements", "", <<>>))
              /\ UNCHANGED <<nextKey, added>>

\* Adds a new announcement and redirects to an editor for it.
post_add(req, v, today) ==
    IF ~can_add(v)
    THEN /\ resp' = denied(req, "post_add")
         /\ UNCHANGED <<store, nextKey, added, lastPut>>
    ELSE LET entity == [key |-> nextKey, title |-> "Sample Announcement",
                        date |-> today, html |-> "Here is my announcement!",
                        is_draft |-> TRUE]
         IN /\ nextKey <= MaxKey
            /\ added < MaxAdds
            /\ store' = entity_put(store, entity)
            /\ nextKey' = nextKey + 1
            /\ added' = added + 1
            /\ resp' = redirect(req, "post_add",
                                get_action_url("edit", <<entity.key>>))
            /\ UNCHANGED lastPut

\* Handles POST.
AnnouncementsHandler_post(v, a, today) ==
    LET req == Request("POST", a, v) IN
    /\ IF a = "" \/ a \notin post_actions
       THEN /\ resp' = error(req, 404)
            /\ UNCHANGED <<store, nextKey, added, lastPut>>
       ELSE IF a = "add" THEN post_add(req, v, today)
       ELSE post_delete(req, v)
    /\ UNCHANGED <<puts, seeded>>

\* ------------------------------------------------------- ItemRESTHandler
\* The lookup of REST GET: a malformed key counts as no entity.
get_or_none(st, key) ==
    LET got == AnnouncementEntity_get(st, key) IN
    IF got.bad THEN <<>> ELSE got.entity

\* Handles REST GET verb and returns an object as JSON payload.
ItemRESTHandler_get(v, key) ==
    LET req == with_key(Request("REST_GET", "", v), key)
        entity == get_or_none(store, key)
    IN /\ resp' =
            IF entity = <<>>
            THEN send_json_response(req, "rest_get", 404, "Object not found.",
                                    <<[key |-> key]>>)
            ELSE send_json_response(req, "rest_get", 200, "Success.",
                                    <<dict_to_json(entity_to_dict(entity[1]))>>)
       /\ UNCHANGED <<store, nextKey, puts, added, seeded, lastPut>>

put_read_lookup_first(req, v, key) ==
    LET got == AnnouncementEntity_get(store, key) IN
    IF got.bad THEN <<uncaught(req, "rest_put")>>
    ELSE IF got.entity = <<>>
    THEN <<send_json_response(req, "rest_put", 404, "Object not found.",
                              <<[key |-> key]>>)>>
    ELSE IF ~can_edit(v)
    THEN <<send_json_response(req, "rest_put", 401, "Access denied.",
                              <<[key |-> key]>>)>>
    ELSE <<>>

\* REST PUT up to its read of the entity: the response that ends the request
\* there, or <<>> when the entity was found and the request goes on.
put_read(req, v, key) ==
    IF ~can_edit(v)
    THEN <<send_json_response(req, "rest_put", 401, "Access denied.",
                              <<[key |-> key]>>)>>
    ELSE LET got == AnnouncementEntity_get(store, key) IN
         IF got.bad THEN <<uncaught(req, "rest_put")>>
         ELSE IF got.entity = <<>>
         THEN <<send_json_response(req, "rest_put", 404, "Object not found.",
                                   <<[key |-> key]>>)>>
         ELSE <<>>

put_entity_keeps_draft(entity, payload) ==
    LET fields == json_to_dict(json_loads(payload)) IN
    IF fields = <<>> THEN <<>>
    ELSE <<[dict_to_entity(entity, fields[1]) EXCEPT !.is_draft = entity.is_draft]>>

\* The entity REST PUT writes: the one it read, with the payload's fields
\* set; <<>> when the payload does not convert.
put_entity(entity, payload) ==
    LET fields == json_to_dict(json_loads(payload)) IN
    IF fields = <<>> THEN <<>> ELSE <<dict_to_entity(entity, fields[1])>>

put_write_if_unchanged(req, entity, payload) ==
    LET e == put_entity(entity, payload)
        now == AnnouncementEntity_get(store, entity.key).entity
    IN IF e = <<>>
       THEN /\ resp' = uncaught(req, "rest_put")
            /\ UNCHANGED <<store, lastPut>>
       ELSE IF now # <<entity>>
       THEN /\ resp' = send_json_response(req, "rest_put", 409, "Conflict.",
                                          <<[key |-> entity.key]>>)
            /\ UNCHANGED <<store, lastPut>>
       ELSE /\ store' = entity_put(store, e[1])
            /\ lastPut' = [lastPut EXCEPT ![entity.key] = <<json_loads(payload)>>]
            /\ resp' = send_json_response(req, "rest_put", 200, "Saved.", <<>>)

\* REST PUT from the payload's conversion to the response.
put_write(req, entity, payload) ==
    LET e == put_entity(entity, payload) IN
    IF e = <<>>
    THEN /\ resp' = uncaught(req, "rest_put")
         /\ UNCHANGED <<store, lastPut>>
    ELSE /\ store' = entity_put(store, e[1])
         /\ lastPut' = [lastPut EXCEPT ![entity.key] = <<json_loads(payload)>>]
         /\ resp' = send_json_response(req, "rest_put", 200, "Saved.", <<>>)

\* Handles REST PUT verb with JSON payload, as one step.
ItemRESTHandler_put(v, key, payload) ==
    LET req == with_key(Request("REST_PUT", "", v), key)
        ended == put_read(req, v, key)
    IN /\ IF ended # <<>>
          THEN /\ resp' = ended[1]
               /\ UNCHANGED <<store, lastPut>>
          ELSE put_write(req, Entity(key, store[key]), payload)
       /\ UNCHANGED <<nextKey, puts, added, seeded>>

\* REST PUT in two steps, other requests running in between: the first ends
\* after AnnouncementEntity.get, the second starts at dict_to_entity.  A
\* request between the two is the entity it read and the payload it carries.
PutRead(v, key, payload) ==
    LET req == with_key(Request("REST_PUT", "", v), key)
        ended == put_read(req, v, key)
    IN /\ IF ended # <<>>
          THEN /\ resp' = ended[1]
               /\ UNCHANGED puts
          ELSE /\ Cardinality(puts) < MaxPuts
               /\ puts' = puts \cup {[req |-> req, entity |-> Entity(key, store[key]),
                                       payload |-> payload]}
               /\ UNCHANGED resp
       /\ UNCHANGED <<store, nextKey, added, seeded, lastPut>>

PutWrite(p) ==
    /\ put_write(p.req, p.entity, p.payload)
    /\ puts' = puts \ {p}
    /\ UNCHANGED <<nextKey, added, seeded>>

\* ---------------------------------------------------------- specifications
Get == \E v \in Viewers, a \in Actions :
          /\ v \in Clients \/ a \in {"", "list"}
          /\ AnnouncementsHandler_get(v, a)

Post == \E v \in Clients, a \in Actions, today \in Todays :
           AnnouncementsHandler_post(v, a, today)

RestGet == \E v \in Clients, key \in RequestKeys : ItemRESTHandler_get(v, key)

RestPut == \E v \in Clients, key \in RequestKeys, payload \in Payloads :
              ItemRESTHandler_put(v, key, json_dumps(payload))

\* The payloads whose conversion succeeds.
GoodPayloads == {p \in Payloads : json_to_dict(p) # <<>>}

RestPutRead == \E v \in Clients, key \in RequestKeys, payload \in GoodPayloads :
                  PutRead(v, key, json_dumps(payload))

RestPutWrite == \E p \in puts : PutWrite(p)

Delete == \E v \in Clients, today \in Todays :
             AnnouncementsHandler_post(v, "delete", today)

\* Requests handled one at a time.
Next == Get \/ Post \/ RestGet \/ RestPut

Spec == Init /\ [][Next]_vars

\* The state after the first list request, made by a student.
InitConc ==
    LET items == sample_entities(1)
        v == CHOOSE c \in Clients : ~c.admin
    IN /\ store = put_all(<<>>, items)
       /\ nextKey = 1 + Len(items)
       /\ resp = render(Request("GET", "list", v), "get_list",
                     format_items_for_template(v, apply_rights(v, items)))
       /\ puts = {}
       /\ added = 0
       /\ seeded = 1
       /\ lastPut = [k \in Keys |-> <<>>]

\* Requests handled concurrently on the seeded store: deletes, and REST PUTs
\* of well-formed payloads, whose read and write are two steps.
NextConc == RestPutRead \/ RestPutWrite \/ Delete

SpecConc == InitConc /\ [][NextConc]_vars

\* ------------------------------------------------------------------ claims
ListShown == resp.handler = "get_list" /\ resp.template # <<>>

Children == resp.template[1].children

Envelope(r) == r.envelope[1]

\* The fields a JSON payload decodes to.
Decoded(j) == json_to_dict(j)

\* C1: the announcements a list request hands to the template for a viewer
\* without edit rights never include a draft, whatever adds, deletes, REST
\* PUTs and lists (the seeding one included) came before.
C1_ListHidesDrafts ==
    (ListShown /\ ~resp.admin) =>
        \A i \in 1..Len(Children) : ~Children[i].is_draft

\* A student is shown a non-empty list while the store holds a draft.
C1_Witness ==
    /\ ListShown /\ ~resp.admin
    /\ Len(Children) >= 1
    /\ \E k \in DOMAIN store : store[k].is_draft

\* C2: no response built for a viewer without edit rights, the list page or
\* a REST GET, returns the contents of a draft.
C2_DraftsHiddenInEveryView ==
    /\ (ListShown /\ ~resp.admin) =>
          \A i \in 1..Len(Children) : ~Children[i].is_draft
    /\ (resp.handler = "rest_get" /\ ~resp.admin /\ Envelope(resp).status = 200) =>
          ~json_loads(Envelope(resp).payload[1]).is_draft

\* C3: a REST PUT by a viewer without edit rights answers 401 'Access
\* denied.' with the key as payload and writes nothing, whatever the key and
\* the payload, with or without a record under the key.
C3_PutDenied ==
    [][(resp'.method = "REST_PUT" /\ ~resp'.admin) =>
          /\ resp'.envelope =
                <<[status |-> 401, message |-> "Access denied.",
                   payload |-> <<json_dumps([key |-> resp'.key[1]])>>]>>
          /\ store' = store
          /\ puts' = puts]_vars

\* A student's REST PUT on the key of a record has been answered.
C3_Witness ==
    /\ resp.method = "REST_PUT" /\ ~resp.admin
    /\ resp.key[1] \in DOMAIN store

\* C4: over any sequence of requests the sample set is written to the store
\* at most once.
C4_SeededAtMostOnce == seeded <= 1

C6_PutGetRoundTrip ==
    (resp.handler = "rest_get" /\ resp.key[1] \in Keys
        /\ lastPut[resp.key[1]] # <<>>) =>
        /\ Envelope(resp).status = 200
        /\ Decoded(json_loads(Envelope(resp).payload[1])) = Decoded(lastPut[resp.key[1]][1])

\* A REST GET has answered for a key whose last write was a REST PUT of a
\* date written without padding.
C6_Witness ==
    /\ resp.handler = "rest_get"
    /\ resp.key[1] \in Keys
    /\ lastPut[resp.key[1]] # <<>>
    /\ Len(lastPut[resp.key[1]][1].date) < 10

\* C7: a delete by a viewer with delete rights never fails: it redirects to
\* the list view, and afterwards no record has the key.
C7_DeleteNeverFails ==
    (resp.method = "POST" /\ resp.action = "delete" /\ resp.admin) =>
        /\ resp.status = 302
        /\ resp.redirect = <<Url("/announcements", "", <<>>)>>
        /\ resp.key[1] \notin DOMAIN store

\* C8: a REST GET answers 404 'Object not found.' with the key as payload
\* when the key is malformed or names no record, and 200 'Success.' with the
\* record as payload when it names one; it leaves the store as it was.
C8_RestGet ==
    [][resp'.method = "REST_GET" =>
          LET key == resp'.key[1]
              env == Envelope(resp')
          IN /\ store' = store
             /\ IF key \in DOMAIN store
                THEN /\ env.status = 200 /\ env.message = "Success."
                     /\ json_loads(env.payload[1]).key = key
                     /\ Decoded(json_loads(env.payload[1])) = <<store[key]>>
                ELSE env = [status |-> 404, message |-> "Object not found.",
                            payload |-> <<json_dumps([key |-> key])>>]]_vars

\* A REST GET with a malformed key has been answered on a store with records.
C8_Witness ==
    /\ resp.method = "REST_GET"
    /\ resp.key = <<BadKey>>
    /\ store # <<>>

\* C9, as stated: a GET whose action is unrecognized or missing resolves to
\* list; a POST whose action is outside {add, delete} fails with 404.
C9_UnrecognizedGetLists ==
    /\ (resp.method = "GET" /\ resp.action \notin {"list", "edit"}) =>
          resp.handler = "get_list"
    /\ (resp.method = "POST" /\ resp.action \notin {"add", "delete"}) =>
          resp.status = 404 /\ resp.handler = ""

\* C9, amended: a GET runs get_list for a missing action or list, get_edit
\* for edit; a POST runs post_add for add, post_delete for delete; any other
\* action, the missing one of a POST included, fails with 404, runs no
\* handler and changes nothing.
C9_Dispatch ==
    [][LET r == resp'
           refused == /\ r.status = 404 /\ r.handler = ""
                      /\ UNCHANGED <<store, nextKey, puts, added, seeded, lastPut>>
       IN /\ r.method = "GET" =>
                IF r.action \in {"", "list"} THEN r.handler = "get_list"
                ELSE IF r.action = "edit" THEN r.handler = "get_edit"
                ELSE refused
          /\ r.method = "POST" =>
                IF r.action = "add" THEN r.handler = "post_add"
                ELSE IF r.action = "delete" THEN r.handler = "post_delete"
                ELSE refused]_vars

\* A GET with an unrecognized action has been refused on a store with records.
C9_Witness ==
    /\ resp.method = "GET" /\ resp.action = "frobnicate"
    /\ resp.status = 404
    /\ store # <<>>

\* C10: REST PUTs on one key whose reads and writes interleave are each
\* answered 200 'Saved.', none is refused for the record having changed since
\* it was read, and the record stored carries the fields of the PUT that
\* wrote last.
C10_LastWriterWins ==
    /\ [](\A k \in DOMAIN store :
             lastPut[k] # <<>> => <<store[k]>> = Decoded(lastPut[k][1]))
    /\ [][\A p \in puts :
             puts' = puts \ {p} =>
                /\ resp'.envelope =
                      <<[status |-> 200, message |-> "Saved.", payload |-> <<>>]>>
                /\ p.entity.key \in DOMAIN store'
                /\ <<store'[p.entity.key]>> = Decoded(json_loads(p.payload))
                /\ lastPut'[p.entity.key] = <<json_loads(p.payload)>>]_vars

\* A REST PUT has written a record that another REST PUT, carrying other
\* fields, read before that write and has yet to write.
C10_Witness ==
    \E p \in puts :
        /\ p.entity.key \in DOMAIN store
        /\ lastPut[p.entity.key] # <<>>
        /\ Props(p.entity) # store[p.entity.key]
        /\ json_loads(p.payload) # lastPut[p.entity.key][1]
====
